---- MODULE Spec2Model ----
(***************************************************************************)
(* A model of file_tree_rs: the tree builder walk_dir and the renderer     *)
(* print_tree of src/src/main.rs, and the Walker of src/src/ref.rs.        *)
(*                                                                         *)
(* Strings are sequences of characters (one-character strings, or the name *)
(* of a code point such as "U2502"), so that starts_with and concatenation *)
(* are computed the way the code computes them.                            *)
(***************************************************************************)
EXTENDS Integers, Sequences, FiniteSets, TLC

\* ------------------------------------------------------------------ bounds
\* Entries below the root in a filesystem of the builder's specification.
MaxEntries == 3
\* Call-stack frames of walk_dir before the process overflows its stack.
MaxStack == 5
\* Entries below the root in a tree handed directly to the renderer.
MaxNodes == 4

\* Option values: the empty sequence is None, <<x>> is Some(x).
NoneOpt == <<>>
Some(x) == <<x>>

\* ------------------------------------------------------------- filesystem
\* What lies on disk. A filesystem is a record of four sequences indexed by
\* entry id 1..n, in pre-order; entry 0 is the root directory.
\*   parent[i]  the directory holding entry i (0, or an earlier "dir" entry)
\*   kind[i]    "file" "dir" "symfile" "symdir" "dangling" "other"
\*              ("other": neither file, symlink nor directory when the walk
\*               classifies it: a vanished entry, a device, a socket)
\*   name[i]    the base name
\*   target[i]  for "symdir", the directory the link points to (0 = the root,
\*              which is an ancestor of every entry); -1 otherwise
Kinds == {"file", "dir", "symfile", "symdir", "dangling", "other"}

Names == { <<"a">>, <<".", "a">> }

RECURSIVE AncestorsOrSelf(_, _)
AncestorsOrSelf(par, m) ==
    IF m = 0 \/ par[m] >= m THEN {m} ELSE {m} \cup AncestorsOrSelf(par, par[m])

\* Pre-order numbering: an entry hangs under the previous entry or one of
\* its ancestors.
PreOrder(par) ==
    /\ \A i \in DOMAIN par : par[i] < i
    /\ \A i \in DOMAIN par : par[i] \in AncestorsOrSelf(par, i - 1)

\* A kind and its link target.
KindTargets ==
    { <<k, -1>> : k \in Kinds \ {"symdir"} }
        \cup { <<"symdir", t>> : t \in 0..(MaxEntries - 1) }

\* Entries lie only in real directories; a link to a directory points to
\* the root or to a real directory numbered before it.
WellFormed(par, kt) ==
    \A i \in DOMAIN par :
        /\ IF par[i] = 0 THEN TRUE ELSE kt[par[i]][1] = "dir"
        /\ IF kt[i][1] # "symdir" \/ kt[i][2] = 0 THEN TRUE
           ELSE kt[i][2] < i /\ kt[kt[i][2]][1] = "dir"

FileSystem(par, kt, nm) ==
    [parent |-> par,
     kind |-> [i \in DOMAIN par |-> kt[i][1]],
     name |-> nm,
     target |-> [i \in DOMAIN par |-> kt[i][2]]]

\* The root path given on the command line. "r" names a directory; "." has
\* no final name component (nor have ".." and "/").
RootPaths == { <<"r">>, <<".">> }

VARIABLES
    fs,          \* the filesystem (never written by the program)
    rootPath,    \* main: path
    pc,          \* main's position: "main" "walk" "unwind" "print" "done"
    stack,       \* the call stack of walk_dir, innermost frame last
    tree,        \* main: tree (NoneOpt until walk_dir of the root returned Ok)
    stdout,      \* the lines printed so far
    outcome,     \* how the process ended: "running" "ok" "err" "panic" "overflow"
    classified,  \* history: the match arm each entry took
    fate,        \* history: what became of each entry
    ioFailed,    \* history: a read_dir or read_link of the walk failed
    walker,      \* ref.rs: the Walker (NoneOpt before from_path)
    wpc,         \* ref.rs: the caller's position: "idle" "new" "ready" "walked" "failed"
    wret         \* ref.rs: what walk_from_root returned, and history

mvars == <<fs, rootPath, pc, stack, tree, stdout, outcome, classified, fate, ioFailed>>
wvars == <<walker, wpc, wret>>
vars == <<mvars, wvars>>

\* ------------------------------------------------------------- primitives
\* Path::is_file, Path::is_dir follow links; Path::is_symlink does not.
is_file(f, n) == f.kind[n] \in {"file", "symfile"}
is_symlink(f, n) == f.kind[n] \in {"symfile", "symdir", "dangling"}
is_dir(f, n) == f.kind[n] \in {"dir", "symdir"}

\* Mutation: the directory check first.
ClassifyDirFirst(f, n) ==
    IF is_dir(f, n) THEN "Directory"
    ELSE IF is_symlink(f, n) THEN "Symlink"
    ELSE IF is_file(f, n) THEN "RegularFile"
    ELSE "unreachable"

\* Mutation: the symbolic-link check first.
ClassifySymlinkFirst(f, n) ==
    IF is_symlink(f, n) THEN "Symlink"
    ELSE IF is_file(f, n) THEN "RegularFile"
    ELSE IF is_dir(f, n) THEN "Directory"
    ELSE "unreachable"

\* The match of walk_dir: the first guard that holds picks the arm.
Classify(f, n) ==
    IF is_file(f, n) THEN "RegularFile"
    ELSE IF is_symlink(f, n) THEN "Symlink"
    ELSE IF is_dir(f, n) THEN "Directory"
    ELSE "unreachable"

\* str::starts_with(".")
starts_with_dot(s) == Len(s) >= 1 /\ s[1] = "."

\* Path::file_name: None when the path ends in "..", or is "." or "/".
file_name(p) ==
    IF p \in { <<".">>, <<".", ".">>, <<"/">> } THEN NoneOpt ELSE Some(p)

\* The directory a path resolves to when it is listed: a link is followed.
Resolve(f, n) == IF n # 0 /\ f.kind[n] = "symdir" THEN f.target[n] ELSE n

\* read_dir's listing of directory d, in enumeration order.
Listing(f, d) ==
    SelectSeq([i \in 1..Len(f.kind) |-> i], LAMBDA i : f.parent[i] = d)

\* What DirEntry::metadata gives: an error, or attributes with or without
\* FILE_ATTRIBUTE_HIDDEN.
MetadataResults == {"Err", "Hidden", "Normal"}

\* The filter of the directory arm (main.rs 77-95).
DirExcluded(nm, md) == starts_with_dot(nm) \/ md = "Hidden"

\* The filter of the file arm (main.rs 47-61).
FileExcluded(nm, md) == starts_with_dot(nm) \/ md = "Hidden"

\* ------------------------------------------------------------ tree values
\* The metadata field of File and Symlink (metadata().ok()) is written and
\* never read; the model leaves it out.
FileNode(nm) == [type |-> "FileNode", name |-> nm, subdirectories |-> <<>>, target |-> -1]
SymlinkNode(nm, t) == [type |-> "SymlinkNode", name |-> nm, subdirectories |-> <<>>, target |-> t]
DirNode(nm, subs) == [type |-> "DirNode", name |-> nm, subdirectories |-> subs, target |-> -1]

Frame(via, subs, i) == [via |-> via, i |-> i, sub_dirs |-> subs]

Top == stack[Len(stack)]
\* The entries the top frame iterates over, and the one it stands at.
TopListing == Listing(fs, Resolve(fs, Top.via))
AtEntry == pc = "walk" /\ stack # <<>> /\ Top.i <= Len(TopListing)
Cur == TopListing[Top.i]

SetTop(fr) == [stack EXCEPT ![Len(stack)] = fr]
\* sub_dirs.push(node) and on to the next entry.
PushNode(node) == SetTop([Top EXCEPT !.sub_dirs = Append(@, node), !.i = @ + 1])
\* continue
Skip == SetTop([Top EXCEPT !.i = @ + 1])

\* ------------------------------------------------------------ print_tree
PIPE == <<"U2502", "U00A0", "U00A0">>
TEE_PIPE == <<"U251C", "U2500", "U2500", " ">>
SPACES == <<"U00A0", "U00A0", " ">>
L_PIPE == <<"U2514", "U2500", " ">>

\* A printed line. text is what println! writes; path is history, the place
\* in the tree of the entry the line was printed for (<<>> for the first and
\* the final line); nums holds the two numbers of the final line.
EntryLine(path, text) == [path |-> path, text |-> text, nums |-> <<>>]
RootLine(p) == [path |-> <<>>, text |-> p, nums |-> <<>>]
TotalsLine(f, d) == [path |-> <<>>, text |-> <<" files, ", " directories">>, nums |-> <<f, d>>]

\* main.rs 139
Connector(subdir_count) == IF subdir_count = 0 THEN L_PIPE ELSE TEE_PIPE

\* Mutation: the new segment goes in front of the prefix.
NextPrefixReversed(prefix, subdir_count) ==
    (IF subdir_count = 0 THEN SPACES ELSE PIPE) \o prefix

\* main.rs 150-154
NextPrefix(prefix, subdir_count) ==
    prefix \o (IF subdir_count = 0 THEN SPACES ELSE PIPE)

\* main.rs 146
CountSymlink(file_count) == file_count + 1

\* Mutation: a sub-directory's own directories are not added.
AddDirsNot(dir_count, d) == dir_count + 1

\* main.rs 158
AddDirs(dir_count, d) == dir_count + d

\* visit(dir, pre): the loop over dir.subdirectories from index i on, with
\* the loop's variables in acc = [sc, f, d, out] (subdir_count, file_count,
\* dir_count and the lines printed).
RECURSIVE visit(_, _, _)
RECURSIVE VisitLoop(_, _, _, _, _)
VisitLoop(dir, pre, path, i, acc) ==
    IF i > Len(dir.subdirectories) THEN acc
    ELSE LET entry == dir.subdirectories[i]
             subdir_count == acc.sc - 1
             prefix == pre
             connector == Connector(subdir_count)
             here == Append(path, i)
         IN CASE entry.type = "FileNode" ->
                   VisitLoop(dir, pre, path, i + 1,
                       [sc |-> subdir_count, f |-> acc.f + 1, d |-> acc.d,
                        out |-> Append(acc.out,
                                   EntryLine(here, prefix \o connector \o entry.name))])
              [] entry.type = "SymlinkNode" ->
                   VisitLoop(dir, pre, path, i + 1,
                       [sc |-> subdir_count, f |-> CountSymlink(acc.f), d |-> acc.d,
                        out |-> acc.out])
              [] entry.type = "DirNode" ->
                   LET line == EntryLine(here, prefix \o connector \o entry.name)
                       next_prefix == NextPrefix(prefix, subdir_count)
                       r == visit(entry, next_prefix, here)
                   IN VisitLoop(dir, pre, path, i + 1,
                          [sc |-> subdir_count, f |-> acc.f + r.f,
                           d |-> AddDirs(acc.d, r.d),
                           out |-> (acc.out \o <<line>>) \o r.out])

visit(dir, pre, path) ==
    VisitLoop(dir, pre, path, 1,
        [sc |-> Len(dir.subdirectories), f |-> 0, d |-> 1, out |-> <<>>])

\* print_tree(path, tree): everything it writes to standard output.
print_tree(path, t) ==
    LET r == visit(t, <<>>, <<>>)
    IN (<<RootLine(path)>> \o r.out) \o <<TotalsLine(r.f, r.d)>>

\* ------------------------------------------------------------------- main
EntryIds == 1..Len(fs.kind)

\* Every filesystem of at most MaxEntries entries.
AnyFileSystem ==
    \E n \in 0..MaxEntries :
        \E par \in [1..n -> 0..(MaxEntries - 1)] :
            /\ PreOrder(par)
            /\ \E kt \in [1..n -> KindTargets] :
                  /\ WellFormed(par, kt)
                  /\ \E nm \in [1..n -> Names] : fs = FileSystem(par, kt, nm)

Init ==
    /\ AnyFileSystem
    /\ rootPath \in RootPaths
    /\ pc = "main"
    /\ stack = <<>>
    /\ tree = NoneOpt
    /\ stdout = <<>>
    /\ outcome = "running"
    /\ classified = [n \in EntryIds |-> "unseen"]
    /\ fate = [n \in EntryIds |-> "unseen"]
    /\ ioFailed = FALSE
    /\ walker = NoneOpt
    /\ wpc = "idle"
    /\ wret = NoneOpt

\* main.rs 174, 34: main calls walk_dir(&path), which starts with read_dir.
MainWalk ==
    /\ pc = "main"
    /\ \E ok \in BOOLEAN :
         IF ok
         THEN /\ stack' = <<Frame(0, <<>>, 1)>>
              /\ pc' = "walk"
              /\ UNCHANGED ioFailed
         ELSE /\ pc' = "unwind"
              /\ ioFailed' = TRUE
              /\ UNCHANGED stack
    /\ UNCHANGED wvars
    /\ UNCHANGED <<fs, rootPath, tree, stdout, outcome, classified, fate>>

\* main.rs 103-105: the iterator yields Err for this entry.
EntryErr ==
    /\ AtEntry
    /\ stack' = Skip
    /\ classified' = [classified EXCEPT ![Cur] = "EnumErr"]
    /\ fate' = [fate EXCEPT ![Cur] = "skipped"]
    /\ UNCHANGED wvars
    /\ UNCHANGED <<fs, rootPath, pc, tree, stdout, outcome, ioFailed>>

\* main.rs 45-66: the file arm.
EntryFile ==
    /\ AtEntry
    /\ Classify(fs, Cur) = "RegularFile"
    /\ classified' = [classified EXCEPT ![Cur] = "RegularFile"]
    /\ \E md \in MetadataResults :
         IF FileExcluded(fs.name[Cur], md)
         THEN /\ stack' = Skip
              /\ fate' = [fate EXCEPT ![Cur] = "excluded"]
         ELSE /\ stack' = PushNode(FileNode(fs.name[Cur]))
              /\ fate' = [fate EXCEPT ![Cur] = "kept"]
    /\ UNCHANGED wvars
    /\ UNCHANGED <<fs, rootPath, pc, tree, stdout, outcome, ioFailed>>

\* main.rs 67-74: the symlink arm; read_link may fail.
EntrySymlink ==
    /\ AtEntry
    /\ Classify(fs, Cur) = "Symlink"
    /\ classified' = [classified EXCEPT ![Cur] = "Symlink"]
    /\ \E rl \in BOOLEAN :
         IF rl
         THEN /\ stack' = PushNode(SymlinkNode(fs.name[Cur], fs.target[Cur]))
              /\ fate' = [fate EXCEPT ![Cur] = "kept"]
              /\ UNCHANGED <<pc, ioFailed>>
         ELSE /\ pc' = "unwind"
              /\ ioFailed' = TRUE
              /\ fate' = [fate EXCEPT ![Cur] = "failed"]
              /\ UNCHANGED stack
    /\ UNCHANGED wvars
    /\ UNCHANGED <<fs, rootPath, tree, stdout, outcome>>

\* main.rs 75-98, 34: the directory arm; the recursive call starts with
\* read_dir of the entry's path.
EntryDir ==
    /\ AtEntry
    /\ Classify(fs, Cur) = "Directory"
    /\ classified' = [classified EXCEPT ![Cur] = "Directory"]
    /\ \E md \in MetadataResults, ok \in BOOLEAN :
         IF DirExcluded(fs.name[Cur], md)
         THEN /\ stack' = Skip
              /\ fate' = [fate EXCEPT ![Cur] = "excluded"]
              /\ UNCHANGED <<pc, outcome, ioFailed>>
         ELSE IF Len(stack) >= MaxStack
         THEN /\ pc' = "done"
              /\ outcome' = "overflow"
              /\ fate' = [fate EXCEPT ![Cur] = "entered"]
              /\ UNCHANGED <<stack, ioFailed>>
         ELSE IF ok
         THEN /\ stack' = Append(stack, Frame(Cur, <<>>, 1))
              /\ fate' = [fate EXCEPT ![Cur] = "entered"]
              /\ UNCHANGED <<pc, outcome, ioFailed>>
         ELSE /\ pc' = "unwind"
              /\ ioFailed' = TRUE
              /\ fate' = [fate EXCEPT ![Cur] = "failed"]
              /\ UNCHANGED <<stack, outcome>>
    /\ UNCHANGED wvars
    /\ UNCHANGED <<fs, rootPath, tree, stdout>>

\* main.rs 100: no guard held.
EntryUnreachable ==
    /\ AtEntry
    /\ Classify(fs, Cur) = "unreachable"
    /\ classified' = [classified EXCEPT ![Cur] = "unreachable"]
    /\ fate' = [fate EXCEPT ![Cur] = "panic"]
    /\ pc' = "done"
    /\ outcome' = "panic"
    /\ UNCHANGED wvars
    /\ UNCHANGED <<fs, rootPath, stack, tree, stdout, ioFailed>>

\* main.rs 110-113, 97, 107: the loop is over; walk_dir builds the Directory
\* (unwrapping the path's file name) and returns it to its caller, which
\* pushes it, or to main.
WalkReturn ==
    /\ pc = "walk"
    /\ stack # <<>>
    /\ Top.i > Len(TopListing)
    /\ LET nm == IF Top.via = 0 THEN file_name(rootPath) ELSE file_name(fs.name[Top.via])
       IN IF nm = NoneOpt
          THEN /\ pc' = "done"
               /\ outcome' = "panic"
               /\ UNCHANGED <<stack, tree, fate>>
          ELSE LET d == DirNode(nm[1], Top.sub_dirs)
                   caller == stack[Len(stack) - 1]
               IN IF Len(stack) = 1
                  THEN /\ tree' = Some(d)
                       /\ stack' = <<>>
                       /\ pc' = "print"
                       /\ UNCHANGED <<outcome, fate>>
                  ELSE /\ stack' = Append(SubSeq(stack, 1, Len(stack) - 2),
                                      [caller EXCEPT !.sub_dirs = Append(@, d), !.i = @ + 1])
                       /\ fate' = [fate EXCEPT ![Top.via] = "kept"]
                       /\ UNCHANGED <<pc, tree, outcome>>
    /\ UNCHANGED wvars
    /\ UNCHANGED <<fs, rootPath, stdout, classified, ioFailed>>

\* Mutation: the caller drops the error and goes on to its next entry.
PropagateErrSwallowed ==
    /\ pc = "unwind"
    /\ stack # <<>>
    /\ stack' = Skip
    /\ pc' = "walk"
    /\ UNCHANGED wvars
    /\ UNCHANGED <<fs, rootPath, tree, stdout, outcome, classified, fate, ioFailed>>

\* main.rs 71, 97: the ? operator returns the error from the top frame.
PropagateErr ==
    /\ pc = "unwind"
    /\ stack # <<>>
    /\ stack' = SubSeq(stack, 1, Len(stack) - 1)
    /\ UNCHANGED wvars
    /\ UNCHANGED <<fs, rootPath, pc, tree, stdout, outcome, classified, fate, ioFailed>>

\* main.rs 174: main's ? returns the error.
MainErr ==
    /\ pc = "unwind"
    /\ stack = <<>>
    /\ pc' = "done"
    /\ outcome' = "err"
    /\ UNCHANGED wvars
    /\ UNCHANGED <<fs, rootPath, stack, tree, stdout, classified, fate, ioFailed>>

\* Mutation: the root path line is printed before the tree is built.
PrintTreeEarly ==
    /\ pc = "main"
    /\ stdout = <<>>
    /\ stdout' = <<RootLine(rootPath)>>
    /\ UNCHANGED wvars
    /\ UNCHANGED <<fs, rootPath, pc, stack, tree, outcome, classified, fate, ioFailed>>

\* main.rs 175-176
PrintTree ==
    /\ pc = "print"
    /\ tree # NoneOpt
    /\ stdout' = stdout \o print_tree(rootPath, tree[1])
    /\ pc' = "done"
    /\ outcome' = "ok"
    /\ UNCHANGED wvars
    /\ UNCHANGED <<fs, rootPath, stack, tree, classified, fate, ioFailed>>

Next ==
    \/ MainWalk
    \/ EntryErr
    \/ EntryFile
    \/ EntrySymlink
    \/ EntryDir
    \/ EntryUnreachable
    \/ WalkReturn
    \/ PropagateErr
    \/ MainErr
    \/ PrintTree

Spec == Init /\ [][Next]_vars

\* The same program under the scheduling it runs with: a single thread that
\* takes its next step as long as it has one.
FairSpec == Spec /\ WF_vars(Next)

\* --------------------------------------------------- the renderer alone
\* print_tree on every tree of at most MaxNodes entries, given as parent,
\* type and name of each entry in pre-order.
NodeTypes == {"FileNode", "SymlinkNode", "DirNode"}
RenderNames == { <<"a">>, <<"b">> }

RECURSIVE BuildEntries(_, _, _, _)
BuildEntries(par, ty, nm, d) ==
    LET ids == SelectSeq([i \in 1..Len(par) |-> i], LAMBDA i : par[i] = d)
    IN [k \in 1..Len(ids) |->
          LET i == ids[k]
          IN IF ty[i] = "DirNode" THEN DirNode(nm[i], BuildEntries(par, ty, nm, i))
             ELSE IF ty[i] = "FileNode" THEN FileNode(nm[i])
             ELSE SymlinkNode(nm[i], 0)]

RenderInit ==
    /\ \E n \in 0..MaxNodes :
         \E par \in [1..n -> 0..(MaxNodes - 1)] :
            /\ PreOrder(par)
            /\ \E ty \in [1..n -> NodeTypes] :
                  /\ \A i \in 1..n : IF par[i] = 0 THEN TRUE ELSE ty[par[i]] = "DirNode"
                  /\ \E nm \in [1..n -> RenderNames] :
                        tree = Some(DirNode(<<"r">>, BuildEntries(par, ty, nm, 0)))
    /\ fs = FileSystem(<<>>, <<>>, <<>>)
    /\ rootPath = <<"r">>
    /\ pc = "print"
    /\ stack = <<>>
    /\ stdout = <<>>
    /\ outcome = "running"
    /\ classified = <<>>
    /\ fate = <<>>
    /\ ioFailed = FALSE
    /\ walker = NoneOpt
    /\ wpc = "idle"
    /\ wret = NoneOpt

RenderNext == PrintTree

SpecRender == RenderInit /\ [][RenderNext]_vars

\* --------------------------------------------------------- ref.rs: Walker
\* The depths the Walker is given. WalkerOptions::new sets u8::MAX; the
\* model tries the small ones, where filesystems of MaxEntries entries reach
\* the limit.
MaxDepthOption == 3

WalkerOptionsSet ==
    [is_recursive : BOOLEAN, max_depth : 1..MaxDepthOption, show_hidden_files : BOOLEAN]

\* FileEntry::from_path, FileEntry::from_dir_entry. path is the entry the
\* path names (0: the root path).
FileEntryFrom(n) == [path |-> n, children |-> NoneOpt, visit_status |-> "Unvisited"]

\* FileEntry::visit
Visit(e) == [e EXCEPT !.visit_status = "Visited"]

\* FileEntry::add_child
add_child(e, c) ==
    [e EXCEPT !.children = IF @ = NoneOpt THEN Some(<<c>>) ELSE Some(Append(@[1], c))]

\* FileEntry::is_dir: Path::is_dir, which follows links. The root path is a
\* directory.
EntryIsDir(f, n) == n = 0 \/ is_dir(f, n)

\* get_dir_entries: a read_dir that fails gives the empty vector, as an
\* empty directory does; entries whose reading fails are left out, as if
\* they were not there.
get_dir_entries(f, n) == Listing(f, Resolve(f, n))

\* file_is_hidden, given the entries whose metadata has the hidden attribute.
file_is_hidden(hid, n) == n \in hid

\* walk_dir_recursive(parent, depth): [entry: parent as it is left, res: the
\* Result returned, hit: whether this call or one below it returned
\* MaxDepthReached]. children(i, acc) is the for loop from the i-th entry on.
RECURSIVE walk_dir_recursive(_, _, _, _, _)
walk_dir_recursive(f, opts, hid, parent0, depth0) ==
    LET parent == Visit(parent0)
        depth == depth0 + 1
        dir_entries == get_dir_entries(f, parent.path)
        RECURSIVE children(_, _)
        children(i, acc) ==
            IF i > Len(dir_entries) THEN acc
            ELSE LET entry == dir_entries[i]
                     child == FileEntryFrom(entry)
                 IN IF ~opts.show_hidden_files /\ file_is_hidden(hid, entry)
                    THEN children(i + 1, acc)
                    ELSE IF EntryIsDir(f, entry)
                    THEN LET r == walk_dir_recursive(f, opts, hid, child, depth)
                         IN children(i + 1,
                                [acc EXCEPT !.entry = add_child(@, r.entry),
                                            !.hit = @ \/ r.hit])
                    ELSE children(i + 1, [acc EXCEPT !.entry = add_child(@, child)])
    IN IF depth = opts.max_depth
       THEN [entry |-> parent, res |-> "MaxDepthReached", hit |-> TRUE]
       ELSE IF ~EntryIsDir(f, parent.path)
       THEN [entry |-> parent, res |-> "FileNotDirectory", hit |-> FALSE]
       ELSE children(1, [entry |-> parent, res |-> "Ok", hit |-> FALSE])

\* Walker::walk_dir(parent, depth)
walk_dir_flat(f, opts, hid, parent, depth) ==
    IF depth = opts.max_depth THEN [res |-> "MaxDepthReached", entries |-> NoneOpt]
    ELSE IF ~EntryIsDir(f, parent.path) THEN [res |-> "FileNotDirectory", entries |-> NoneOpt]
    ELSE LET all == get_dir_entries(f, parent.path)
             shown == IF opts.show_hidden_files THEN all
                      ELSE SelectSeq(all, LAMBDA n : ~file_is_hidden(hid, n))
         IN [res |-> "Ok", entries |-> Some([k \in 1..Len(shown) |-> FileEntryFrom(shown[k])])]

WalkerInit ==
    /\ AnyFileSystem
    /\ rootPath = <<"r">>
    /\ pc = "idle"
    /\ stack = <<>>
    /\ tree = NoneOpt
    /\ stdout = <<>>
    /\ outcome = "running"
    /\ classified = [n \in EntryIds |-> "unseen"]
    /\ fate = [n \in EntryIds |-> "unseen"]
    /\ ioFailed = FALSE
    /\ walker = NoneOpt
    /\ wpc = "new"
    /\ wret = NoneOpt

\* ref.rs 167-179: Walker::from_path
FromPath ==
    /\ wpc = "new"
    /\ \E exists \in BOOLEAN, opts \in WalkerOptionsSet :
         IF exists
         THEN /\ walker' = Some([options |-> opts, root |-> FileEntryFrom(0)])
              /\ wpc' = "ready"
              /\ UNCHANGED wret
         ELSE /\ wpc' = "failed"
              /\ wret' = Some([of |-> "from_path", value |-> "PathNotFound", hit |-> FALSE])
              /\ UNCHANGED walker
    /\ UNCHANGED mvars

\* ref.rs 181-206: Walker::walk_from_root, which returns ().
WalkFromRoot ==
    /\ wpc = "ready"
    /\ \E hid \in SUBSET EntryIds :
         LET w == walker[1]
         IN IF w.options.is_recursive
            THEN LET r == walk_dir_recursive(fs, w.options, hid, w.root, 0)
                 IN /\ walker' = Some([w EXCEPT !.root = r.entry])
                    /\ wret' = Some([of |-> "walk_from_root", value |-> "unit", hit |-> r.hit])
            ELSE LET root == Visit(w.root)
                     r == walk_dir_flat(fs, w.options, hid, root, 0)
                 IN /\ walker' = Some([w EXCEPT !.root =
                                         IF r.res = "Ok" THEN [root EXCEPT !.children = r.entries]
                                         ELSE root])
                    /\ wret' = Some([of |-> "walk_from_root", value |-> "unit",
                                     hit |-> r.res = "MaxDepthReached"])
    /\ wpc' = "walked"
    /\ UNCHANGED mvars

WalkerNext == FromPath \/ WalkFromRoot

SpecWalker == WalkerInit /\ [][WalkerNext]_vars

\* ================================================================ claims
\* What the claims speak of, stated without the renderer's or the builder's
\* code: the places of a tree, and what is at each.
RECURSIVE PathsOf(_)
PathsOf(node) ==
    { <<>> } \cup
    UNION { { <<i>> \o p : p \in PathsOf(node.subdirectories[i]) }
            : i \in 1..Len(node.subdirectories) }

RECURSIVE NodeAt(_, _)
NodeAt(node, p) ==
    IF p = <<>> THEN node ELSE NodeAt(node.subdirectories[Head(p)], Tail(p))

Built == tree[1]
Printed == pc = "done" /\ outcome = "ok"
\* The lines between the root path line and the final line.
EntryLines == SubSeq(stdout, 2, Len(stdout) - 1)
FinalLine == stdout[Len(stdout)]

NumDirectories(t) ==
    Cardinality({ p \in PathsOf(t) : NodeAt(t, p).type = "DirNode" })
NumLeaves(t) ==
    Cardinality({ p \in PathsOf(t) : NodeAt(t, p).type \in {"FileNode", "SymlinkNode"} })

\* C1: the two numbers on print_tree's final line are the number of
\* FileNode and SymlinkNode entries anywhere in the tree, and the number of
\* Directory nodes of the tree with the root counted as one.
C1_CountsMatchTree ==
    Printed =>
        /\ Len(stdout) >= 2
        /\ FinalLine.nums = <<NumLeaves(Built), NumDirectories(Built)>>

\* C1's case: a tree with a directory inside a directory, and a symbolic link.
C1_Witness ==
    /\ Printed
    /\ \E p \in PathsOf(Built) : Len(p) = 2 /\ NodeAt(Built, p).type = "DirNode"
    /\ \E p \in PathsOf(Built) : NodeAt(Built, p).type = "SymlinkNode"
    /\ FinalLine.nums = <<1, 3>>

\* Whether the sibling at place p is the last of its parent's entries.
IsLastSibling(t, p) ==
    p[Len(p)] = Len(NodeAt(t, SubSeq(p, 1, Len(p) - 1)).subdirectories)

\* The text of a line after the text before the connector: every segment
\* before the connector is three characters long.
AfterPrefix(line) ==
    SubSeq(line.text, 3 * (Len(line.path) - 1) + 1, Len(line.text))
BeforeConnector(line) == SubSeq(line.text, 1, 3 * (Len(line.path) - 1))

StartsWith(s, c) == Len(s) >= Len(c) /\ SubSeq(s, 1, Len(c)) = c

\* The lines printed for the entries of the directory at place q.
ChildLinesOf(q) ==
    { k \in DOMAIN EntryLines :
        /\ Len(EntryLines[k].path) = Len(q) + 1
        /\ SubSeq(EntryLines[k].path, 1, Len(q)) = q }

\* C3: in every directory the last sibling is rendered with the elbow
\* connector and every earlier sibling with the tee connector, so the last
\* line printed for the entries of any non-empty directory carries the
\* elbow connector, also when the entries contain symbolic links.
C3_LastSiblingElbow ==
    Printed =>
        \A q \in PathsOf(Built) :
            LET lines == ChildLinesOf(q)
                last == CHOOSE k \in lines : \A j \in lines : j <= k
            IN (NodeAt(Built, q).subdirectories # <<>> /\ lines # {}) =>
                  /\ StartsWith(AfterPrefix(EntryLines[last]), L_PIPE)
                  /\ \A k \in lines \ {last} :
                        StartsWith(AfterPrefix(EntryLines[k]), TEE_PIPE)

\* x before y in pre-order: x is a proper prefix of y, or x is smaller at
\* the first index where they differ.
RECURSIVE PreOrderBefore(_, _)
PreOrderBefore(x, y) ==
    IF x = <<>> THEN y # <<>>
    ELSE IF y = <<>> THEN FALSE
    ELSE IF Head(x) # Head(y) THEN Head(x) < Head(y)
    ELSE PreOrderBefore(Tail(x), Tail(y))

\* One segment per ancestor below the root, outermost first.
RECURSIVE ExpectedPrefix(_, _, _)
ExpectedPrefix(t, p, j) ==
    IF j >= Len(p) THEN <<>>
    ELSE (IF IsLastSibling(t, SubSeq(p, 1, j)) THEN SPACES ELSE PIPE)
             \o ExpectedPrefix(t, p, j + 1)

\* C9: a line printed for an entry at depth d starts with d-1 segments, one
\* per ancestor directory below the root from the outermost to the innermost
\* (the vertical bar when that ancestor was not the last sibling, the blank
\* padding when it was), then the connector and the entry's name; the lines
\* come in pre-order, one for each entry that is not a symbolic link.
C9_PrefixPerAncestor ==
    Printed =>
        /\ \A k \in DOMAIN EntryLines :
              LET line == EntryLines[k]
                  entry == NodeAt(Built, line.path)
              IN /\ line.path \in PathsOf(Built) \ { <<>> }
                 /\ BeforeConnector(line) = ExpectedPrefix(Built, line.path, 1)
                 /\ AfterPrefix(line) \in { TEE_PIPE \o entry.name, L_PIPE \o entry.name }
        /\ \A k \in 1..(Len(EntryLines) - 1) :
              PreOrderBefore(EntryLines[k].path, EntryLines[k + 1].path)
        /\ { EntryLines[k].path : k \in DOMAIN EntryLines }
              = { p \in PathsOf(Built) \ { <<>> } : NodeAt(Built, p).type # "SymlinkNode" }

\* C9's case: a line at depth 3 under an outer ancestor that has a later
\* sibling and an inner ancestor that is the last sibling.
C9_Witness ==
    /\ Printed
    /\ \E k \in DOMAIN EntryLines :
          /\ Len(EntryLines[k].path) = 3
          /\ BeforeConnector(EntryLines[k]) = PIPE \o SPACES

\* ------------------------------------------------------ the builder's claims
DotNamed(n) == starts_with_dot(fs.name[n])
\* The entry was put in the tree under construction, or is being walked.
Retained(n) == fate[n] \in {"kept", "entered"}

\* C2: an entry below the root whose base name starts with '.' is never put
\* in the tree, whatever its kind, and a dot-named directory is not walked.
C2_DotNamedNeverRetained ==
    \A n \in EntryIds : DotNamed(n) => ~Retained(n)

\* C4: a run of main ends with the tree printed or with an error returned,
\* never in a panic.
C4_NeverPanics == outcome # "panic"

\* C5: nothing is written to standard output before walk_dir of the root
\* has returned Ok, and nothing at all when the build failed.
C5_BuildThenRender ==
    /\ stdout # <<>> => (tree # NoneOpt /\ stack = <<>> /\ pc \in {"print", "done"})
    /\ (ioFailed \/ outcome \in {"err", "panic", "overflow"}) => stdout = <<>>

\* C5's case: a tree with a nested entry was built, then printed.
C5_Witness ==
    /\ Printed
    /\ Len(stdout) >= 4
    /\ \E n \in EntryIds : fs.parent[n] # 0 /\ fate[n] = "kept"

\* Every frame of walk_dir but the root's was entered through a real
\* directory lying in the directory of the frame below it.
OnlyRealDirectoriesWalked ==
    \A k \in 1..Len(stack) :
        IF k = 1 THEN stack[k].via = 0
        ELSE /\ fs.kind[stack[k].via] = "dir"
             /\ fs.parent[stack[k].via] = stack[k - 1].via

\* A measure of the work left: what main has still to do, the entries not
\* yet looked at, and the calls of walk_dir not yet returned.
WorkLeft ==
    (CASE pc = "main" -> 4
       [] pc = "walk" -> 2
       [] pc \in {"unwind", "print"} -> 1
       [] OTHER -> 0)
    + 2 * Cardinality({ n \in EntryIds : fate[n] = "unseen" })
    + Len(stack)

\* C6: walk_dir never recurses into a symbolic link, whatever it points to,
\* and walk_dir of the root comes to an end on every filesystem, also one
\* whose links point to ancestor directories: every step of the run takes
\* from the work left, which is a natural number, and the run has a next
\* step until main has ended.
C6_NoLinkFollowedAndTerminates ==
    /\ [](OnlyRealDirectoriesWalked /\ outcome # "overflow")
    /\ [](pc # "done" => ENABLED Next)
    /\ [][WorkLeft' < WorkLeft]_vars
    /\ <>(pc = "done")

\* C6's case: the walk ended with a link to its own parent directory, two
\* levels down, kept as a leaf.
C6_Witness ==
    /\ pc = "done"
    /\ \E n \in EntryIds :
          /\ fs.kind[n] = "symdir"
          /\ fs.parent[n] # 0
          /\ fs.target[n] = fs.parent[n]
          /\ fate[n] = "kept"

Seen(n) == classified[n] \notin {"unseen", "EnumErr"}

\* C7 as claimed: the directory check comes first, so a link to a directory
\* is a Directory, a link to a regular file a Symlink, a plain file a
\* RegularFile.
C7_DirectoryFirst ==
    \A n \in EntryIds :
        Seen(n) =>
            /\ fs.kind[n] = "symdir" => classified[n] = "Directory"
            /\ fs.kind[n] = "symfile" => classified[n] = "Symlink"
            /\ fs.kind[n] = "file" => classified[n] = "RegularFile"

\* C7 as amended: the regular-file check (which follows links) comes first,
\* then the symbolic-link check, then the directory check: a link to a
\* regular file is a RegularFile, a link to a directory and a dangling link
\* are a Symlink, only a real directory is a Directory.
C7_FileFirst ==
    \A n \in EntryIds :
        Seen(n) =>
            /\ fs.kind[n] \in {"file", "symfile"} => classified[n] = "RegularFile"
            /\ fs.kind[n] \in {"symdir", "dangling"} => classified[n] = "Symlink"
            /\ fs.kind[n] = "dir" => classified[n] = "Directory"

\* C7's case: a link to a directory and a link to a file were classified.
C7_Witness ==
    /\ \E n \in EntryIds : fs.kind[n] = "symdir" /\ classified[n] = "Symlink"
    /\ \E n \in EntryIds : fs.kind[n] = "symfile" /\ classified[n] = "RegularFile"

\* C8: once the listing of a retained directory or the reading of a link's
\* target has failed, walk_dir of the root returns an error and no tree;
\* and nothing inside an excluded directory is ever looked at.
C8_FailureAbortsBuild ==
    /\ ioFailed =>
          /\ pc \in {"unwind", "done"}
          /\ tree = NoneOpt
          /\ pc = "done" => outcome = "err"
    /\ \A n, m \in EntryIds :
          (fate[n] = "excluded" /\ fs.parent[m] = n) => fate[m] = "unseen"

\* C8's case: the listing of a directory two levels down failed, next to an
\* entry already retained, and main returned the error.
C8_Witness ==
    /\ pc = "done"
    /\ outcome = "err"
    /\ \E n, m \in EntryIds :
          /\ fs.kind[n] = "dir" /\ fs.parent[n] # 0 /\ fate[n] = "failed"
          /\ fate[m] = "kept"

\* ------------------------------------------------------ the Walker's claim
ChildrenOf(e) == IF e.children = NoneOpt THEN <<>> ELSE e.children[1]

\* The places of a FileEntry tree, each with the entry at it.
RECURSIVE EntriesOf(_, _)
EntriesOf(e, level) ==
    { [level |-> level, entry |-> e] } \cup
    UNION { EntriesOf(ChildrenOf(e)[i], level + 1) : i \in 1..Len(ChildrenOf(e)) }

\* C10: in the recursive mode with max_depth M, a directory at level L with
\* L + 1 = M is left unlisted, so no entry lies deeper than level M - 1, and
\* the caller of walk_from_root is told that the depth limit was reached.
C10_DepthLimitReported ==
    (wpc = "walked" /\ walker[1].options.is_recursive) =>
        LET M == walker[1].options.max_depth
        IN /\ \A x \in EntriesOf(walker[1].root, 0) :
                 /\ x.level <= M - 1
                 /\ x.level + 1 = M => x.entry.children = NoneOpt
           /\ wret[1].hit => wret[1].value = "MaxDepthReached"

====
